---- MODULE Spec2Model ----
(***************************************************************************)
(* usb_logger.c: printf() re-routed through a FreeRTOS queue to a logger   *)
(* task that writes the queued frames on the USB CDC port.                 *)
(*                                                                         *)
(* The model has one process per execution context of the program:         *)
(*   - the producers, tasks calling _write() (lines 79-100);               *)
(*   - the consumer, usb_logger_task (lines 107-148), one step per access  *)
(*     to an object it shares with another context;                       *)
(*   - the timer service running on_usb_timeout (lines 153-157).           *)
(* FreeRTOS is preemptive, so the steps interleave in every order. The     *)
(* queue, task and timer calls are FreeRTOS API calls, each atomic.        *)
(***************************************************************************)
EXTENDS Integers, Sequences, FiniteSets, TLC

(***************************************************************************)
(* Sizes. The queue depth (5 in the source, line 41) and the frame         *)
(* capacity (64 in the source, line 42) are scaled down so that a full     *)
(* queue and an over-long write are reached with few writes.               *)
(***************************************************************************)
USB_LOG_QUEUE_MAX == 2

USB_TX_BUFFER_MAX_SIZE == 2

\* Longest payload a producer passes to _write.
MaxLen == 3

\* Number of _write calls in a run.
MaxWrites == 3

Producers == {"p1", "p2"}

(***************************************************************************)
(* USBD_StatusTypeDef of the ST USB device library (usbd_def.h):           *)
(* USBD_OK = 0, USBD_BUSY, USBD_EMEM, USBD_FAIL.                           *)
(***************************************************************************)
USBD_OK == 0

USBD_BUSY == 1

USBD_FAIL == 3

pdPASS == "pdPASS"

pdFAIL == "pdFAIL"

\* The bytes a caller passes: byte i of a payload is i, so that a frame
\* shows which bytes of the payload it holds, and in which order. A caller
\* passes a one-byte payload or the longest one.
Payload(n) == [i \in 1..n |-> i]

Payloads == {Payload(1), Payload(MaxLen)}

\* What the transport may answer, by the behaviour chosen for the run.
TransportModes == {"ok", "busy", "any"}

Outcomes(mode) ==
    CASE mode = "ok" -> {USBD_OK}
      [] mode = "busy" -> {USBD_BUSY}
      [] OTHER -> {USBD_OK, USBD_BUSY, USBD_FAIL}

\* A producer outside _write.
Idle == [pc |-> "idle", len |-> 0, call |-> 0]

\* The value of queued_data before any frame was received into it; the
\* task reads queued_data only after a successful receive.
NoFrame == [tx_buffer |-> <<>>, tx_len |-> 0, id |-> 0]

VARIABLES
    queue,          \* usb_queue_handle: the frames queued, oldest first
    taskState,      \* scheduler state of usb_logger_task
    pc,             \* usb_logger_task: the line it is at
    queue_status,   \* usb_logger_task local
    queued_data,    \* usb_logger_task local
    rc,             \* usb_logger_task local
    queue_spaces,   \* usb_logger_task local
    is_usb_timeout, \* the timeout flag
    timerActive,    \* timeout_timer is running
    prod,           \* per producer: position in _write, len, its call
    transport,      \* behaviour of CDC_Transmit_FS in this run
    calls,          \* history: every _write call, in order of its xQueueSend,
                    \* with its argument, its frame and, once it has
                    \* returned, its return value
    txLog,          \* history: the frames passed to CDC_Transmit_FS
    woken           \* history: the last call whose xQueueSend succeeded
                    \* while the task was suspended, until its frame is
                    \* passed to CDC_Transmit_FS (0: none)

vars == <<queue, taskState, pc, queue_status, queued_data, rc, queue_spaces,
          is_usb_timeout, timerActive, prod, transport, calls, txLog,
          woken>>

consumerVars == <<pc, queue_status, queued_data, rc, queue_spaces>>

----------------------------------------------------------------------------
(* _write, lines 79-100 *)

\* Variant: _write without the truncation of lines 84-85.
Truncate_None(len) == len

\* Truncate to max buffer size.
Truncate(len) ==
    IF len > USB_TX_BUFFER_MAX_SIZE THEN USB_TX_BUFFER_MAX_SIZE ELSE len

Memcpy(ptr, len) == SubSeq(ptr, 1, len)

\* The USB_Task_DataStruct _write builds; id is the number of the call.
MakeFrame(ptr, len, id) ==
    [tx_buffer |-> Memcpy(ptr, Truncate(len)),
     tx_len |-> Truncate(len),
     id |-> id]

\* Variant: a send that overwrites the oldest frame of a full queue.
xQueueSend_Overwrite(q, item) ==
    IF Len(q) < USB_LOG_QUEUE_MAX
    THEN [status |-> pdPASS, queue |-> Append(q, item)]
    ELSE [status |-> pdPASS, queue |-> Append(Tail(q), item)]

\* Variant: a send on a queue with no capacity limit.
xQueueSend_Unbounded(q, item) ==
    [status |-> pdPASS, queue |-> Append(q, item)]

\* xQueueSend with no block time: fails on a full queue.
xQueueSend(q, item) ==
    IF Len(q) < USB_LOG_QUEUE_MAX
    THEN [status |-> pdPASS, queue |-> Append(q, item)]
    ELSE [status |-> pdFAIL, queue |-> q]

\* vTaskResume acts on a suspended task only.
\* Variant: a resume that also readies a task blocked in vTaskDelay.
vTaskResume_Always(s) == "Ready"

vTaskResume(s) == IF s = "Suspended" THEN "Ready" ELSE s

\* Lines 83-93 and, when the queue is full, line 99.
Write_Send(p) ==
    /\ prod[p].pc = "idle"
    /\ Len(calls) < MaxWrites
    /\ \E ptr \in Payloads :
        LET id == Len(calls) + 1
            data == MakeFrame(ptr, Len(ptr), id)
            sent == xQueueSend(queue, data)
        IN  /\ queue' = sent.queue
            /\ calls' = Append(calls,
                               [ptr |-> ptr, status |-> sent.status,
                                frame |-> data,
                                returned |-> sent.status # pdPASS,
                                ret |-> IF sent.status = pdPASS
                                        THEN 0 ELSE USBD_FAIL])
            /\ prod' = [prod EXCEPT ![p] =
                           IF sent.status = pdPASS
                           THEN [pc |-> "resume", len |-> data.tx_len,
                                 call |-> id]
                           ELSE Idle]
            /\ woken' = IF sent.status = pdPASS /\ taskState = "Suspended"
                        THEN id ELSE woken
    /\ UNCHANGED <<taskState, consumerVars, is_usb_timeout, timerActive,
                   transport, txLog>>

\* Lines 95-96.
Write_Resume(p) ==
    /\ prod[p].pc = "resume"
    /\ taskState' = vTaskResume(taskState)
    /\ calls' = [calls EXCEPT ![prod[p].call].returned = TRUE,
                              ![prod[p].call].ret = prod[p].len]
    /\ prod' = [prod EXCEPT ![p] = Idle]
    /\ UNCHANGED <<queue, consumerVars, is_usb_timeout, timerActive,
                   transport, txLog, woken>>

----------------------------------------------------------------------------
(* usb_logger_task, lines 107-148 *)

\* Variant: a receive that takes the newest frame.
xQueueReceive_Newest(q) ==
    IF q # <<>>
    THEN [status |-> pdPASS, item |-> q[Len(q)],
          queue |-> SubSeq(q, 1, Len(q) - 1)]
    ELSE [status |-> pdFAIL, item |-> NoFrame, queue |-> q]

\* xQueueReceive with no block time: the oldest frame, or failure.
xQueueReceive(q) ==
    IF q # <<>>
    THEN [status |-> pdPASS, item |-> Head(q), queue |-> Tail(q)]
    ELSE [status |-> pdFAIL, item |-> NoFrame, queue |-> q]

uxQueueSpacesAvailable(q) == USB_LOG_QUEUE_MAX - Len(q)

\* Variant: the task never suspends itself.
vTaskSuspend_Noop(s) == s

vTaskSuspend(s) == "Suspended"

\* Variant: line 125 does not look at the timeout flag.
TransmitCond_AnyFlag(status, timeout) == status = pdPASS

\* Line 125: transmit data if available.
TransmitCond(status, timeout) == status = pdPASS /\ timeout = FALSE

\* Variant: every result but USBD_OK is retried.
RetryCond_NotOk(r, timeout) == r # USBD_OK /\ timeout = FALSE

\* Variant: the do-while does not look at the timeout flag.
RetryCond_NoTimeout(r, timeout) == r = USBD_BUSY

\* Variant: the call is repeated until the timeout, whatever it returned.
RetryCond_UntilTimeout(r, timeout) == timeout = FALSE

\* Line 131: the condition of the do-while.
RetryCond(r, timeout) == r = USBD_BUSY /\ timeout = FALSE

\* Line 144: suspend task if queue is empty.
SuspendCond(spaces) == spaces = USB_LOG_QUEUE_MAX

\* The transmit log with one more call of CDC_Transmit_FS(buf, len):
\* consecutive calls with the same frame share an entry.
Logged(log, f) ==
    LET sent == [id |-> f.id, bytes |-> SubSeq(f.tx_buffer, 1, f.tx_len),
                 len |-> f.tx_len]
    IN  IF log # <<>> /\ log[Len(log)] = sent THEN log ELSE Append(log, sent)

Running == taskState = "Ready"

\* Lines 110-114: xTimerCreate; the timer is created dormant.
T_Create ==
    /\ Running /\ pc = "create"
    /\ pc' = "receive"
    /\ UNCHANGED <<queue, taskState, queue_status, queued_data, rc,
                   queue_spaces, is_usb_timeout, timerActive, prod,
                   transport, calls, txLog, woken>>

\* Lines 118-122.
T_Receive ==
    /\ Running /\ pc = "receive"
    /\ LET got == xQueueReceive(queue)
       IN  /\ queue' = got.queue
           /\ queue_status' = got.status
           /\ queued_data' = got.item
    /\ rc' = USBD_OK
    /\ pc' = "check"
    /\ UNCHANGED <<taskState, queue_spaces, is_usb_timeout, timerActive,
                   prod, transport, calls, txLog, woken>>

\* Line 125.
T_Check ==
    /\ Running /\ pc = "check"
    /\ pc' = IF TransmitCond(queue_status, is_usb_timeout)
             THEN "start" ELSE "istimeout"
    /\ UNCHANGED <<queue, taskState, queue_status, queued_data, rc,
                   queue_spaces, is_usb_timeout, timerActive, prod,
                   transport, calls, txLog, woken>>

\* Variant: the timer is created but not started before the transmit.
T_TimerStart_Missing ==
    /\ Running /\ pc = "start"
    /\ pc' = "transmit"
    /\ UNCHANGED <<queue, taskState, queue_status, queued_data, rc,
                   queue_spaces, is_usb_timeout, timerActive, prod,
                   transport, calls, txLog, woken>>

\* Line 127: xTimerStart.
T_TimerStart ==
    /\ Running /\ pc = "start"
    /\ timerActive' = TRUE
    /\ pc' = "transmit"
    /\ UNCHANGED <<queue, taskState, queue_status, queued_data, rc,
                   queue_spaces, is_usb_timeout, prod, transport, calls,
                   txLog, woken>>

\* Line 130: CDC_Transmit_FS.
T_Transmit ==
    /\ Running /\ pc = "transmit"
    /\ \E r \in Outcomes(transport) :
        /\ rc' = r
        /\ txLog' = Logged(txLog, queued_data)
    /\ woken' = IF queued_data.id = woken THEN 0 ELSE woken
    /\ pc' = "while"
    /\ UNCHANGED <<queue, taskState, queue_status, queued_data,
                   queue_spaces, is_usb_timeout, timerActive, prod,
                   transport, calls>>

\* Line 131.
T_While ==
    /\ Running /\ pc = "while"
    /\ pc' = IF RetryCond(rc, is_usb_timeout) THEN "transmit" ELSE "istimeout"
    /\ UNCHANGED <<queue, taskState, queue_status, queued_data, rc,
                   queue_spaces, is_usb_timeout, timerActive, prod,
                   transport, calls, txLog, woken>>

\* Line 135.
T_IsTimeout ==
    /\ Running /\ pc = "istimeout"
    /\ pc' = IF is_usb_timeout = TRUE THEN "delay" ELSE "spaces"
    /\ UNCHANGED <<queue, taskState, queue_status, queued_data, rc,
                   queue_spaces, is_usb_timeout, timerActive, prod,
                   transport, calls, txLog, woken>>

\* Line 137: vTaskDelay blocks the task for the retry interval.
T_Delay ==
    /\ Running /\ pc = "delay"
    /\ taskState' = "Blocked"
    /\ pc' = "clear"
    /\ UNCHANGED <<queue, queue_status, queued_data, rc, queue_spaces,
                   is_usb_timeout, timerActive, prod, transport, calls,
                   txLog, woken>>

\* The retry interval has elapsed.
DelayExpire ==
    /\ taskState = "Blocked"
    /\ taskState' = "Ready"
    /\ UNCHANGED <<queue, consumerVars, is_usb_timeout, timerActive, prod,
                   transport, calls, txLog, woken>>

\* Line 138.
T_Clear ==
    /\ Running /\ pc = "clear"
    /\ is_usb_timeout' = FALSE
    /\ pc' = "reset"
    /\ UNCHANGED <<queue, taskState, queue_status, queued_data, rc,
                   queue_spaces, timerActive, prod, transport, calls,
                   txLog, woken>>

\* The end of the loop body: its variables (lines 118-119, 143) go out of
\* scope, and the next iteration assigns each before it reads it.
EndOfIteration ==
    /\ pc' = "receive"
    /\ queue_status' = pdFAIL
    /\ queued_data' = NoFrame
    /\ rc' = USBD_OK
    /\ queue_spaces' = 0

\* Line 139: xTimerReset restarts the timer, and starts a dormant one.
T_Reset ==
    /\ Running /\ pc = "reset"
    /\ timerActive' = TRUE
    /\ EndOfIteration
    /\ UNCHANGED <<queue, taskState, is_usb_timeout, prod, transport, calls,
                   txLog, woken>>

\* Line 143.
T_Spaces ==
    /\ Running /\ pc = "spaces"
    /\ queue_spaces' = uxQueueSpacesAvailable(queue)
    /\ pc' = "suspend"
    /\ UNCHANGED <<queue, taskState, queue_status, queued_data, rc,
                   is_usb_timeout, timerActive, prod, transport, calls,
                   txLog, woken>>

\* Lines 144-145; either way the loop goes on at line 118.
T_Suspend ==
    /\ Running /\ pc = "suspend"
    /\ taskState' = IF SuspendCond(queue_spaces)
                    THEN vTaskSuspend(taskState) ELSE taskState
    /\ EndOfIteration
    /\ UNCHANGED <<queue, is_usb_timeout, timerActive, prod, transport,
                   calls, txLog, woken>>

Consumer ==
    \/ T_Create
    \/ T_Receive
    \/ T_Check
    \/ T_TimerStart
    \/ T_Transmit
    \/ T_While
    \/ T_IsTimeout
    \/ T_Delay
    \/ T_Clear
    \/ T_Reset
    \/ T_Spaces
    \/ T_Suspend

----------------------------------------------------------------------------
(* on_usb_timeout, lines 153-157: the callback of the auto-reload timer,  *)
(* which runs at every expiry of the timer once it has been started.      *)
on_usb_timeout ==
    /\ timerActive
    /\ is_usb_timeout' = TRUE
    /\ UNCHANGED <<queue, taskState, consumerVars, timerActive, prod,
                   transport, calls, txLog, woken>>

----------------------------------------------------------------------------
(* After usb_logger_init (lines 65-74): the queue is created empty and    *)
(* the task is created ready, at the top of usb_logger_task.              *)
Init ==
    /\ queue = <<>>
    /\ taskState = "Ready"
    /\ pc = "create"
    /\ queue_status = pdFAIL
    /\ queued_data = NoFrame
    /\ rc = USBD_OK
    /\ queue_spaces = 0
    /\ is_usb_timeout = FALSE
    /\ timerActive = FALSE
    /\ prod = [p \in Producers |-> Idle]
    /\ transport \in TransportModes
    /\ calls = <<>>
    /\ txLog = <<>>
    /\ woken = 0

Next ==
    \/ \E p \in Producers : Write_Send(p)
    \/ \E p \in Producers : Write_Resume(p)
    \/ T_Create
    \/ T_Receive
    \/ T_Check
    \/ T_TimerStart
    \/ T_Transmit
    \/ T_While
    \/ T_IsTimeout
    \/ T_Delay
    \/ DelayExpire
    \/ T_Clear
    \/ T_Reset
    \/ T_Spaces
    \/ T_Suspend
    \/ on_usb_timeout

Spec == Init /\ [][Next]_vars

----------------------------------------------------------------------------
(* What the properties below speak of. *)

\* The calls whose xQueueSend succeeded, in the order of their enqueue.
Accepted == SelectSeq(calls, LAMBDA c : c.status = pdPASS)

\* What CDC_Transmit_FS is given when it is passed frame f.
SentOf(f) ==
    [id |-> f.id, bytes |-> SubSeq(f.tx_buffer, 1, f.tx_len), len |-> f.tx_len]

\* Frame id was passed to CDC_Transmit_FS.
Presented(id) == \E j \in 1..Len(txLog) : txLog[j].id = id

InQueue(id) == \E k \in 1..Len(queue) : queue[k].id = id

\* The task has frame id in queued_data, in the current loop iteration.
Holding(id) == queued_data.id = id

\* No producer is inside _write.
NoWriteInProgress == \A p \in Producers : prod[p] = Idle

\* Nothing runs until the next _write: the consumer is suspended and no
\* producer is about to resume it.
Settled == taskState = "Suspended" /\ NoWriteInProgress

----------------------------------------------------------------------------
(* C1. With a transport that always succeeds, every accepted frame is      *)
(* passed to the transport with the bytes and length that were enqueued,   *)
(* and the queue ends empty with the consumer suspended. Stated on the     *)
(* states where the run has ended (the consumer suspended, no write in     *)
(* progress): there the queue is empty and the transport was given exactly *)
(* the accepted frames, in order.                                          *)
C1_AcceptedAreTransmitted ==
    (transport = "ok" /\ Settled) =>
        /\ queue = <<>>
        /\ txLog = [i \in 1..Len(Accepted) |-> SentOf(Accepted[i].frame)]

(* C2. A frame whose successful write found the consumer suspended is      *)
(* presented to the transport, whatever the timeout flag was: once such a  *)
(* frame (the last one so far) has left the queue and the consumer has     *)
(* finished the iteration that received it, it has been passed to          *)
(* CDC_Transmit_FS.                                                        *)
C2_WokenFramePresented ==
    (transport = "ok" /\ woken # 0) =>
        \/ InQueue(woken)
        \/ Holding(woken)
        \/ Presented(woken)

(* C3. A write on a full queue returns the failure sentinel, leaves the    *)
(* queue as it was (same frames, same order), and issues no resume: the    *)
(* task state is unchanged and the caller is out of _write.                *)
C3_FullQueueRejects ==
    [][(Len(calls') = Len(calls) + 1 /\ Len(queue) = USB_LOG_QUEUE_MAX) =>
          /\ calls'[Len(calls')].status = pdFAIL
          /\ calls'[Len(calls')].returned
          /\ calls'[Len(calls')].ret = USBD_FAIL
          /\ queue' = queue
          /\ taskState' = taskState
          /\ prod' = prod]_vars

\* A write was just refused by a full queue.
C3_Witness ==
    /\ calls # <<>>
    /\ calls[Len(calls)].status = pdFAIL
    /\ Len(queue) = USB_LOG_QUEUE_MAX
    /\ \A k \in 1..Len(queue) : queue[k].id < Len(calls)

(* C4. The frames passed to the transport are, in order, a subsequence of  *)
(* the accepted frames: each is an accepted frame, and of two frames that  *)
(* reach the transport the one enqueued first (lower id) comes first.      *)
C4_TransmitOrderIsEnqueueOrder ==
    /\ \A j \in 1..Len(txLog) :
          /\ txLog[j].id \in 1..Len(calls)
          /\ calls[txLog[j].id].status = pdPASS
          /\ txLog[j] = SentOf(calls[txLog[j].id].frame)
    /\ \A j, k \in 1..Len(txLog) : j < k => txLog[j].id < txLog[k].id

\* Two frames, enqueued by writes that overlapped, reached the transport.
C4_Witness ==
    /\ Len(txLog) >= 2
    /\ \E p \in Producers : prod[p].pc = "resume"

(* C5. The consumer suspends itself only when the queue is empty and the   *)
(* timeout flag is clear: in the state right after it suspended, the queue *)
(* holds no frame and is_usb_timeout is false.                             *)
C5_SuspendsOnlyWhenIdle ==
    [][(taskState # "Suspended" /\ taskState' = "Suspended") =>
          (queue' = <<>> /\ is_usb_timeout' = FALSE)]_vars

C7_StallStep ==
    /\ (pc = "while" /\ pc' # "while") =>
          IF is_usb_timeout
          THEN pc' = "istimeout"
          ELSE pc' = "transmit" /\ queued_data' = queued_data
    /\ (pc = "istimeout" /\ pc' # "istimeout" /\ queue_status = pdPASS) =>
          pc' = "delay"
    /\ (pc = "delay" /\ pc' # "delay") =>
          taskState' = "Blocked" /\ pc' = "clear"
    /\ (pc = "clear" /\ pc' # "clear") =>
          is_usb_timeout' = FALSE /\ pc' = "reset"
    /\ (pc = "reset" /\ pc' # "reset") =>
          /\ timerActive'
          /\ pc' = "receive"
          /\ queued_data' = NoFrame
          /\ queue' = queue
    /\ (pc = "receive" /\ pc' # "receive" /\ queue # <<>>) =>
          /\ queued_data' = Head(queue)
          /\ queue' = Tail(queue)
    /\ Len(queue') > Len(queue) =>
          queue'[Len(queue')].id = Len(calls') /\ Len(calls') > Len(calls)

C7_BusyStallAbandonsFrame ==
    /\ [][C7_StallStep]_vars
    /\ [](\A j, k \in 1..Len(txLog) : j # k => txLog[j].id # txLog[k].id)
    /\ (pc = "transmit") ~> (pc = "receive")

\* A frame was given up after a timeout, and the consumer is transmitting
\* the frame that was behind it in the queue.
C7_Witness ==
    /\ transport = "busy"
    /\ Len(txLog) >= 2
    /\ pc = "while"
    /\ Holding(txLog[Len(txLog)].id)
    /\ txLog[Len(txLog) - 1].id = txLog[Len(txLog)].id - 1

(* C8. Once the queue is drained for good (no frame queued and no write    *)
(* in progress, from some point on), the consumer eventually is suspended  *)
(* and stays so; and while it is suspended with no write in progress it    *)
(* takes no step: it receives nothing, transmits nothing, does not clear   *)
(* the flag, and stays suspended.                                          *)
Drained == queue = <<>> /\ NoWriteInProgress

C8_IdleConsumerSuspends ==
    /\ (<>[]Drained) => <>[](taskState = "Suspended")
    /\ [][Settled =>
             /\ consumerVars' = consumerVars
             /\ txLog' = txLog
             /\ taskState' = "Suspended"
             /\ (is_usb_timeout => is_usb_timeout')
             /\ (queue' # queue => Len(calls') > Len(calls))]_vars

\* The consumer has transmitted what was queued and is suspended.
C8_Witness ==
    /\ Settled
    /\ queue = <<>>
    /\ txLog # <<>>
    /\ Len(txLog) = Len(Accepted)

(* C9. A write on a queue that is not full stores a frame of length        *)
(* min(len, C) holding the first min(len, C) bytes of the data, in order,  *)
(* and returns min(len, C); every frame in the queue, in the consumer's    *)
(* hands or handed to the transport has a length of at most C.             *)
Min(a, b) == IF a < b THEN a ELSE b

C9_WriteTruncates ==
    /\ \A i \in 1..Len(calls) :
          LET n == Min(Len(calls[i].ptr), USB_TX_BUFFER_MAX_SIZE)
          IN  calls[i].status = pdPASS =>
                /\ calls[i].frame.tx_len = n
                /\ Len(calls[i].frame.tx_buffer) = n
                /\ \A b \in 1..n :
                      calls[i].frame.tx_buffer[b] = calls[i].ptr[b]
                /\ calls[i].returned => calls[i].ret = n
    /\ \A k \in 1..Len(queue) :
          /\ queue[k] = calls[queue[k].id].frame
          /\ queue[k].tx_len <= USB_TX_BUFFER_MAX_SIZE
    /\ queued_data.tx_len <= USB_TX_BUFFER_MAX_SIZE
    /\ \A j \in 1..Len(txLog) :
          /\ txLog[j].len <= USB_TX_BUFFER_MAX_SIZE
          /\ Len(txLog[j].bytes) = txLog[j].len

\* A write longer than the frame capacity returned the capacity, and its
\* frame reached the transport.
C9_Witness ==
    \E i \in 1..Len(calls) :
        /\ Len(calls[i].ptr) > USB_TX_BUFFER_MAX_SIZE
        /\ calls[i].returned
        /\ calls[i].ret = USB_TX_BUFFER_MAX_SIZE
        /\ Presented(i)

(* C10. The queue holds between 0 and N frames, and its contents change    *)
(* only by a write appending its new frame behind the others or by the     *)
(* consumer's receive taking the oldest: no enqueue overwrites or evicts   *)
(* a queued frame.                                                         *)
C10_QueueBounded ==
    /\ [](Len(queue) \in 0..USB_LOG_QUEUE_MAX)
    /\ [][queue' # queue =>
             \/ /\ Len(calls') = Len(calls) + 1
                /\ queue' = Append(queue, calls'[Len(calls')].frame)
             \/ /\ pc = "receive" /\ pc' = "check"
                /\ queue # <<>>
                /\ queue' = Tail(queue)
                /\ queued_data' = Head(queue)]_vars

\* The queue is full again after the consumer has taken a frame out of it.
C10_Witness ==
    /\ Len(queue) = USB_LOG_QUEUE_MAX
    /\ txLog # <<>>
    /\ Len(Accepted) > USB_LOG_QUEUE_MAX

----------------------------------------------------------------------------
(* Scheduling. The task, the end of its delay and the timer callback each  *)
(* run when they can (weak fairness). The timer period is 5000 ms and a    *)
(* loop iteration without a transmit takes microseconds, so the callback   *)
(* cannot come between the reset of the timer and the task's next reads of *)
(* the flag every time: the steps of lines 139, 122, 125 and 135 taken     *)
(* with the flag clear are strongly fair.                                  *)
Fairness ==
    /\ WF_vars(Consumer)
    /\ WF_vars(DelayExpire)
    /\ WF_vars(on_usb_timeout)
    /\ \A p \in Producers : WF_vars(Write_Resume(p))

FlagClear == is_usb_timeout = FALSE

TimerIsSlow ==
    /\ SF_vars(T_Reset /\ FlagClear)
    /\ SF_vars(T_Receive /\ FlagClear)
    /\ SF_vars(T_Check /\ FlagClear)
    /\ SF_vars(T_IsTimeout /\ FlagClear)

\* A transport that always reports USBD_BUSY.
InitBusy == Init /\ transport = "busy"

BusyFairSpec == InitBusy /\ [][Next]_vars /\ Fairness

\* A transport free to answer anything.
InitAny == Init /\ transport = "any"

FairSpec == InitAny /\ [][Next]_vars /\ Fairness /\ TimerIsSlow

----------------------------------------------------------------------------
\* The step that calls CDC_Transmit_FS (line 130).
TransmitCall == pc = "transmit" /\ pc' = "while"

(* C11, as stated. No transmit call is issued while the timeout flag is    *)
(* set: at every call of CDC_Transmit_FS, is_usb_timeout is clear, also    *)
(* when the timer callback ran after the task's last read of the flag.     *)
C11_NoTransmitWhileFlagSet ==
    [][TransmitCall => is_usb_timeout = FALSE]_vars

(* C11, amended. The task never goes on to a transmit call after reading   *)
(* the flag as set: the loop is entered only by the read of line 125       *)
(* finding the flag clear, a further call is issued only after the read of *)
(* line 131 found it clear, and a read of line 131 that finds it set       *)
(* leaves the loop. The callback can set the flag between a read and the   *)
(* call that follows it, and then that one call is issued with the flag    *)
(* set.                                                                    *)
C11_NoTransmitAfterFlagRead ==
    /\ [][(pc # "start" /\ pc' = "start") =>
             pc = "check" /\ is_usb_timeout = FALSE]_vars
    /\ [][(pc # "transmit" /\ pc' = "transmit") =>
             \/ pc = "start"
             \/ pc = "while" /\ is_usb_timeout = FALSE]_vars
    /\ [][(pc = "while" /\ pc' # "while" /\ is_usb_timeout) =>
             pc' = "istimeout"]_vars

\* The callback ran between the read of line 125 and the first call: the
\* task is about to transmit a frame not yet presented, with the flag set.
C11_Witness ==
    /\ pc = "transmit"
    /\ is_usb_timeout
    /\ ~Presented(queued_data.id)

(* C12. The task leaves the suspended state only by the resume of a write  *)
(* whose xQueueSend succeeded, and it is then ready; a write whose send    *)
(* failed leaves the task state alone; and a resume of a task that is not  *)
(* suspended changes neither the task's state, its position and locals,    *)
(* the queue nor the timeout flag.                                         *)
C12_OnlyAcceptedWriteResumes ==
    /\ [][(taskState = "Suspended" /\ taskState' # "Suspended") =>
             /\ taskState' = "Ready"
             /\ \E p \in Producers :
                   /\ prod[p].pc = "resume"
                   /\ prod'[p] = Idle
                   /\ calls[prod[p].call].status = pdPASS]_vars
    /\ [][(Len(calls') = Len(calls) + 1
             /\ calls'[Len(calls')].status = pdFAIL) =>
             taskState' = taskState /\ prod' = prod]_vars
    /\ [][(taskState # "Suspended"
             /\ \E p \in Producers : prod[p].pc = "resume" /\ prod'[p] = Idle) =>
             /\ taskState' = taskState
             /\ consumerVars' = consumerVars
             /\ queue' = queue
             /\ is_usb_timeout' = is_usb_timeout]_vars

\* A write that found the task suspended has returned and the task is
\* ready again, while another write was rejected.
C12_Witness ==
    /\ woken # 0
    /\ calls[woken].returned
    /\ taskState = "Ready"
    /\ \E i \in 1..Len(calls) : calls[i].status = pdFAIL

\* The task is in the do-while of lines 128-131.
InRetryLoop == pc \in {"transmit", "while"}

(* C13. With a transport that never reports success (it always answers     *)
(* USBD_BUSY) and the task and the timer callback fairly scheduled, the    *)
(* task always leaves the do-while of the frame it is transmitting, and    *)
(* it leaves it with the timeout flag set: it is never stuck on one frame. *)
C13_RetryLoopTerminates ==
    InRetryLoop ~> (pc = "istimeout" /\ is_usb_timeout)

\* The task has left the loop on a busy transport: the last answer was
\* USBD_BUSY and the flag is set.
C13_Witness ==
    /\ transport = "busy"
    /\ pc = "istimeout"
    /\ rc = USBD_BUSY
    /\ is_usb_timeout
    /\ Presented(queued_data.id)

(* C14. The transport is only given frames that a write put into the       *)
(* queue (the frame of a write that took the failure return of line 99 is  *)
(* never passed to it), no frame is passed to it in two separate           *)
(* iterations, and a call is repeated for a frame only after that frame's  *)
(* previous call answered USBD_BUSY: never after USBD_OK.                  *)
C14_AcceptedOnlyAndOnce ==
    /\ [](\A j \in 1..Len(txLog) :
             /\ txLog[j].id \in 1..Len(calls)
             /\ calls[txLog[j].id].status = pdPASS
             /\ \A k \in 1..Len(txLog) : txLog[k].id = txLog[j].id => k = j)
    /\ [][(TransmitCall /\ Presented(queued_data.id)) =>
             /\ rc = USBD_BUSY
             /\ txLog[Len(txLog)].id = queued_data.id
             /\ txLog' = txLog]_vars

\* Three writes on a queue of two: the third was rejected and returned,
\* the first two were transmitted and the last call answered USBD_OK.
C14_Witness ==
    /\ \E i \in 1..Len(calls) :
          /\ calls[i].status = pdFAIL
          /\ calls[i].returned
          /\ ~Presented(i)
    /\ Len(txLog) = USB_LOG_QUEUE_MAX
    /\ pc = "istimeout"
    /\ rc = USBD_OK

(* C15. Every frame the task takes out of the queue is passed to           *)
(* CDC_Transmit_FS at least once, also when the timeout flag is set at the *)
(* moment of the receive: an accepted frame that is no longer in the queue *)
(* and is not the frame of the current iteration has been passed to the    *)
(* transport.                                                              *)
C15_DequeuedIsTransmitted ==
    \A i \in 1..Len(calls) :
        (calls[i].status = pdPASS /\ ~InQueue(i) /\ ~Holding(i)) =>
            Presented(i)

(* C16. The task is never suspended while the queue holds                  *)
(* USB_LOG_QUEUE_MAX frames, also when producers run between the task's    *)
(* read of the free slots (line 143) and its vTaskSuspend (line 145).      *)
(* Stated on the states that nothing but a new write can leave (the task   *)
(* suspended, no write in progress): there the queue is not full.          *)
C16_NeverSuspendedOnFullQueue ==
    ~(Settled /\ Len(queue) = USB_LOG_QUEUE_MAX)

\* The timer callback sets the flag.
FlagRaised == is_usb_timeout = FALSE /\ is_usb_timeout' = TRUE

(* C17. The timeout flag becomes set only while the task is inside the     *)
(* do-while of a frame whose transmit has not succeeded: never after the   *)
(* last call answered USBD_OK, never while the task is suspended, never    *)
(* between two frames. Stated for the case that leaves no room for a       *)
(* callback that is merely late: the flag is not set while the task is     *)
(* suspended, when every frame it received has had its last call answered. *)
C17_FlagNotSetWhileSuspended ==
    [][FlagRaised => taskState # "Suspended"]_vars

====
